---- MODULE Spec2Model ----
(***************************************************************************)
(* Task-tree state management and synchronisation layer of the            *)
(* Eisenhower-matrix task application (components/ApplicationLayout,      *)
(* services/geminiService, services/firebaseService).                     *)
(*                                                                         *)
(* Representation choices                                                  *)
(*  - a task id is a natural number; generateTaskId() yields the next     *)
(*    unused number (timestamp + random suffix, taken as never colliding) *)
(*  - a "YYYY-MM-DD" string is the number of its day, counted from        *)
(*    2023-01-01 = 1; the empty string is NoDate                          *)
(*  - an instant (a JS Date) is a number of hours since 2022-12-31T00:00Z *)
(*  - free-text fields (reasoning, messages) are tags naming the template *)
(*    the code fills in                                                    *)
(*  - a JS object is a record; an optional property that is not set is    *)
(*    not in the record's DOMAIN                                           *)
(*                                                                         *)
(* Left out: export, the mood suggestion, and the timers that hide a      *)
(* toast or clear the global error.  Collections whose parent links form *)
(* a cycle occur under SpecResolver only.                                *)
(***************************************************************************)
EXTENDS Integers, Sequences, FiniteSets, TLC

\* ------------------------------------------------------------------ bounds
MaxIds == 5          \* ids generateTaskId may hand out in one run
MaxTasks == 5        \* largest collection a creating operation may produce
MaxWrites == 1       \* persistence writes and deliveries outstanding at once
MaxEvents == 3       \* user events and other sessions' writes in one run

\* --------------------------------------------------------------- constants
NoParent == 0        \* parentId: null
NoDate == 0          \* dueDate: ''

\* ---------------------------------------------------------------- calendar
IsLeap(y) == (y % 4 = 0 /\ y % 100 # 0) \/ y % 400 = 0

DaysInMonth(y, m) ==
    IF m = 2 THEN (IF IsLeap(y) THEN 29 ELSE 28)
    ELSE IF m \in {4, 6, 9, 11} THEN 30 ELSE 31

RECURSIVE DaysBeforeYear(_)
DaysBeforeYear(y) ==
    IF y <= 2023 THEN 0
    ELSE DaysBeforeYear(y - 1) + (IF IsLeap(y - 1) THEN 366 ELSE 365)

RECURSIVE DaysBeforeMonth(_, _)
DaysBeforeMonth(y, m) ==
    IF m <= 1 THEN 0 ELSE DaysBeforeMonth(y, m - 1) + DaysInMonth(y, m - 1)

\* The day number of year y, month m, day d.  d may run past the end of the
\* month and m past December: the overflow carries, as in a JS Date.
DayOf(y, m, d) ==
    LET idx == m - 1
        yy == y + (idx \div 12)
        mm == (idx % 12) + 1
    IN DaysBeforeYear(yy) + DaysBeforeMonth(yy, mm) + d

\* Year, month and day of month of a day number.
RECURSIVE YearOf(_, _)
YearOf(day, y) == IF day <= DaysBeforeYear(y + 1) THEN y ELSE YearOf(day, y + 1)

RECURSIVE MonthAndDay(_, _, _)
MonthAndDay(rest, y, m) ==
    IF rest <= DaysInMonth(y, m) THEN [y |-> y, m |-> m, d |-> rest]
    ELSE MonthAndDay(rest - DaysInMonth(y, m), y, m + 1)

YMD(day) ==
    LET y == YearOf(day, 2023)
    IN MonthAndDay(day - DaysBeforeYear(y), y, 1)

\* new Date(`${dateStr}T00:00:00`): a date-time string without an offset is
\* read as local time, so the instant is local midnight of that day.
ParseLocalMidnight(day, offset) == day * 24 - offset

\* Date.prototype.toISOString().split('T')[0]: the UTC calendar date.
ISODate(instant) == instant \div 24

\* The local calendar day of an instant (getDate/getMonth work on it).
LocalDay(instant, offset) == (instant + offset) \div 24

\* The local hour of day of an instant (setDate/setMonth keep it).
LocalHour(instant, offset) == (instant + offset) % 24

\* An instant from local calendar fields.
FromLocal(day, hour, offset) == day * 24 + hour - offset

\* nextDueDate.setDate(nextDueDate.getDate() + n)
SetDatePlus(instant, n, offset) ==
    FromLocal(LocalDay(instant, offset) + n, LocalHour(instant, offset), offset)

\* nextDueDate.setMonth(nextDueDate.getMonth() + n)
SetMonthPlus(instant, n, offset) ==
    LET f == YMD(LocalDay(instant, offset))
    IN FromLocal(DayOf(f.y, f.m + n, f.d), LocalHour(instant, offset), offset)


\* ------------------------------------------------------------- task entity
Statuses == {"active", "completed", "trashed"}

\* QuadrantType
QuadrantTypes == {"do", "schedule", "delegate", "delete", "unclassified"}

\* The keys of QUADRANT_CONFIGS: the four quadrants and the 'unclassified'
\* entry the matrix view and the info modal read.
QUADRANT_CONFIGS == {"do", "schedule", "delegate", "delete", "unclassified"}

\* recurring: null
NoRecurring == [type |-> "null", interval |-> 0]

RecurringTypes == {"daily", "weekly", "monthly"}

\* The task object literal of handleAddTask / handleAddSubtasks.
NewTask(id, name, dueDate, quadrant, reasoning, createdAt, parentId) ==
    [id |-> id, name |-> name, dueDate |-> dueDate, quadrant |-> quadrant,
     reasoning |-> reasoning, createdAt |-> createdAt, status |-> "active",
     recurring |-> NoRecurring, parentId |-> parentId]

\* { ...a, ...b }: every property of a, overridden or extended by those of b.
Spread(a, b) ==
    [k \in (DOMAIN a) \cup (DOMAIN b) |-> IF k \in DOMAIN b THEN b[k] ELSE a[k]]

\* ids.includes(x)
Includes(ids, x) == \E i \in 1..Len(ids) : ids[i] = x

TaskIds(ts) == {ts[i].id : i \in 1..Len(ts)}

HasTask(ts, id) == \E i \in 1..Len(ts) : ts[i].id = id

\* ts.find(t => t.id === id), for an id that is present: the first match.
FindTask(ts, id) ==
    ts[CHOOSE i \in 1..Len(ts) :
          ts[i].id = id /\ \A j \in 1..(i - 1) : ts[j].id # id]

\* ----------------------------------------------------- descendant resolution
RECURSIVE getAllDescendantIds(_, _)
RECURSIVE DescendantsFrom(_, _, _)

\* A resolver that stops at the direct children.
ChildrenOnly(taskId, allTasks) ==
    LET children == SelectSeq(allTasks, LAMBDA t : t.parentId = taskId)
    IN [i \in 1..Len(children) |-> children[i].id]

\* A resolver that follows the first child only.
FirstChildOnly(taskId, allTasks) ==
    LET children == SelectSeq(allTasks, LAMBDA t : t.parentId = taskId)
    IN IF children = <<>> THEN <<>>
       ELSE <<children[1].id>> \o getAllDescendantIds(children[1].id, allTasks)

\* The for-loop over children: each child's id, then the child's descendants.
DescendantsFrom(children, i, allTasks) ==
    IF i > Len(children) THEN <<>>
    ELSE <<children[i].id>>
         \o getAllDescendantIds(children[i].id, allTasks)
         \o DescendantsFrom(children, i + 1, allTasks)

getAllDescendantIds(taskId, allTasks) ==
    DescendantsFrom(SelectSeq(allTasks, LAMBDA t : t.parentId = taskId), 1, allTasks)

\* Whether the call getAllDescendantIds(taskId, allTasks) returns.  onStack
\* holds the ids whose calls are still open.  The call opens one call per
\* child; a call for an id that is already open has the same arguments as
\* the open one, so the recursion repeats without end and the engine throws
\* RangeError (maximum call stack size exceeded).
RECURSIVE CallReturns(_, _, _)
CallReturns(taskId, allTasks, onStack) ==
    /\ taskId \notin onStack
    /\ \A i \in 1..Len(allTasks) :
          allTasks[i].parentId = taskId
          => CallReturns(allTasks[i].id, allTasks, onStack \cup {taskId})

\* A selective variant: only the listed tasks that are in the trash change.
SetStatusOfTrashedOnly(ts, ids, status) ==
    [i \in 1..Len(ts) |->
        IF Includes(ids, ts[i].id) /\ ts[i].status = "trashed"
        THEN [ts[i] EXCEPT !.status = status] ELSE ts[i]]

\* tasks.map(t => ids.includes(t.id) ? { ...t, status } : t)
SetStatusOf(ts, ids, status) ==
    [i \in 1..Len(ts) |->
        IF Includes(ids, ts[i].id) THEN [ts[i] EXCEPT !.status = status] ELSE ts[i]]

\* --------------------------------------------------------- recurrence engine
\* mainTask.recurring && mainTask.recurring.type !== 'none'
IsRecurring(t) == t.recurring.type \notin {"null", "none"}

\* The due date of the next instance: the base date read as local midnight,
\* moved by the interval, written back as the UTC date of that instant.
NextDueDate(mainTask, now, offset) ==
    LET baseDateStr == IF mainTask.dueDate # NoDate THEN mainTask.dueDate
                       ELSE ISODate(now)
        start == ParseLocalMidnight(baseDateStr, offset)
        n == mainTask.recurring.interval
        moved == CASE mainTask.recurring.type = "daily" -> SetDatePlus(start, n, offset)
                   [] mainTask.recurring.type = "weekly" -> SetDatePlus(start, 7 * n, offset)
                   [] mainTask.recurring.type = "monthly" -> SetMonthPlus(start, n, offset)
                   [] OTHER -> start
    IN ISODate(moved)

\* A next instance that overrides the id and the dates only.
CopiedInstance(mainTask, newId, now, offset) ==
    Spread(mainTask,
           [id |-> newId, dueDate |-> NextDueDate(mainTask, now, offset),
            createdAt |-> newId])

\* const newRecurringTask = { ...mainTask, id, dueDate, status, quadrant,
\* reasoning, createdAt }
NewRecurringTask(mainTask, newId, now, offset) ==
    Spread(mainTask,
           [id |-> newId, dueDate |-> NextDueDate(mainTask, now, offset),
            status |-> "active", quadrant |-> "unclassified",
            reasoning |-> "newRecurringInstance", createdAt |-> newId])

\* A status change that creates the next instance of every recurring task it
\* completes, the cascaded ones included.
SuccessorPerCompletedTask(ts, taskId, newStatus, newId, now, offset) ==
    LET idsToUpdateStatus == <<taskId>> \o getAllDescendantIds(taskId, ts)
        tasksToUpdate == SetStatusOf(ts, idsToUpdateStatus, newStatus)
        completedRecurring == SelectSeq(tasksToUpdate,
            LAMBDA t : Includes(idsToUpdateStatus, t.id) /\ IsRecurring(t))
    IN IF newStatus = "completed"
       THEN tasksToUpdate \o [i \in 1..Len(completedRecurring) |->
                NewRecurringTask(completedRecurring[i], newId + i - 1, now, offset)]
       ELSE tasksToUpdate

\* The collection handleTaskStatusChange hands to updateTasks.
StatusChanged(ts, taskId, newStatus, newId, now, offset) ==
    LET idsToUpdateStatus == <<taskId>> \o getAllDescendantIds(taskId, ts)
        tasksToUpdate == SetStatusOf(ts, idsToUpdateStatus, newStatus)
        mainTask == FindTask(tasksToUpdate, taskId)
    IN IF newStatus = "completed" /\ IsRecurring(mainTask)
       THEN Append(tasksToUpdate, NewRecurringTask(mainTask, newId, now, offset))
       ELSE tasksToUpdate

\* Whether handleTaskStatusChange creates the next instance (and so draws an id).
CreatesSuccessor(ts, taskId, newStatus) ==
    newStatus = "completed" /\ IsRecurring(FindTask(ts, taskId))


\* ------------------------------------------------- AI classification boundary
\* What the remote model call can come back with:
\*   kind "json"        a body that parses as JSON (the body's properties)
\*   kind "invalidJson" text that JSON.parse rejects
\*   kind "error"       the request fails; apiKeyMessage tells whether the
\*                      error's message contains the words "API key"
ClassificationBodies ==
    { [quadrant |-> "do", reasoning |-> "ai",
       suggestedDate |-> DayOf(2024, 2, 1), dateReasoning |-> "ai"],
      [quadrant |-> "unclassified", reasoning |-> "ai"],
      [quadrant |-> "urgent", reasoning |-> "ai"] }

ClassificationReplies ==
    { [kind |-> "json", body |-> b] : b \in ClassificationBodies }
    \cup { [kind |-> "invalidJson"] }
    \cup { [kind |-> "error", apiKeyMessage |-> k] : k \in BOOLEAN }

\* A classification call whose errors never mention the API key.
performWithoutKeyMessage(reply) ==
    IF reply.kind = "json" /\ reply.body.quadrant \in QUADRANT_CONFIGS
    THEN [ok |-> TRUE, result |-> reply.body]
    ELSE [ok |-> FALSE, apiKeyMessage |-> FALSE]

\* performAIClassification after the request has come back: the parsed
\* result, or the Error it throws ("AI Classification failed: ..." wraps the
\* inner message, so it contains "API key" exactly when the inner one does).
performAIClassification(reply) ==
    IF reply.kind = "json"
    THEN IF reply.body.quadrant \in QUADRANT_CONFIGS
         THEN [ok |-> TRUE, result |-> reply.body]
         ELSE [ok |-> FALSE, apiKeyMessage |-> FALSE]
    ELSE IF reply.kind = "invalidJson"
    THEN [ok |-> FALSE, apiKeyMessage |-> FALSE]
    ELSE [ok |-> FALSE, apiKeyMessage |-> reply.apiKeyMessage]

\* A merge entry spread the other way round: { ...result, ...task }
TaskOverResult(task, result) == Spread(result, task)

\* { ...task, ...result, dueDate: result.suggestedDate || task.dueDate }
ClassifiedTask(task, result) ==
    Spread(Spread(task, result),
           [dueDate |-> IF "suggestedDate" \in DOMAIN result /\ result.suggestedDate # NoDate
                        THEN result.suggestedDate ELSE task.dueDate])

\* { ...task, reasoning: `AI classification failed: ...` }
FailedTask(task) == Spread(task, [reasoning |-> "classificationFailed"])

\* tasks.filter(t => t.status === 'active' && t.quadrant === 'unclassified' && !t.parentId)
TasksToClassify(ts) ==
    SelectSeq(ts, LAMBDA t : t.status = "active" /\ t.quadrant = "unclassified"
                              /\ t.parentId = NoParent)

\* results.find(r => r.id === t.id), for an id that has a result
FindResult(results, id) == FindTask(results, id)

\* tasks.map(t => results.find(r => r.id === t.id) || t), over the collection
\* the handler closed over when it was called
MergeResults(ts, results) ==
    [i \in 1..Len(ts) |->
        IF HasTask(results, ts[i].id) THEN FindResult(results, ts[i].id) ELSE ts[i]]

\* tasks.map(t => t.id === taskId ? replacement : t)
ReplaceTask(ts, taskId, replacement) ==
    [i \in 1..Len(ts) |-> IF ts[i].id = taskId THEN replacement ELSE ts[i]]


\* ------------------------------------------------------------------- inputs
\* newTaskName as typed: a name with blanks around it, only blanks, nothing
TypedNames == {" essay ", "  ", ""}

\* A variant that takes the name as typed.
Untrimmed(name) == name

\* String.prototype.trim on the typed names
Trim(name) == IF name = "  " THEN "" ELSE IF name = " essay " THEN "essay" ELSE name

\* newDueDate of the add form
TypedDueDates == {DayOf(2024, 1, 1)}

\* What the edit modal submits: name, due date, recurring (type 'none' is
\* turned into null by the modal before onSave)
EditInputs ==
    { <<"report", DayOf(2024, 1, 1), [type |-> "weekly", interval |-> 2]>>,
      <<"essay", DayOf(2024, 1, 31), [type |-> "monthly", interval |-> 1]>>,
      <<"essay", NoDate, [type |-> "daily", interval |-> 1]>> }

\* Quadrants a task is dropped on
MoveTargets == {"schedule", "unclassified"}

\* The host's offset from UTC in hours (local = UTC + offset) when a task is
\* completed
TimeZones == {-1, 0, 1}

\* Instants at which a task is completed: 2024-03-10T23:00Z
NowInstants == {DayOf(2024, 3, 10) * 24 + 23}

\* What the breakdown call can come back with
BreakdownReplies ==
    { [kind |-> "json", subtasks |-> <<"outline", "draft">>],
      [kind |-> "json", subtasks |-> <<>>],
      [kind |-> "error", apiKeyMessage |-> TRUE],
      [kind |-> "error", apiKeyMessage |-> FALSE] }

\* The remote 'tasks' document when the session starts: absent, a
\* three-level chain written by an earlier session (an imported backup), or
\* two top-level tasks waiting for classification.
ChainDocument ==
    << [NewTask(1, "essay", DayOf(2024, 1, 1), "do", "ai", 1, NoParent)
            EXCEPT !.recurring = [type |-> "weekly", interval |-> 2]],
       [NewTask(2, "outline", NoDate, "do", "subTaskFor", 2, 1)
            EXCEPT !.recurring = [type |-> "daily", interval |-> 1]],
       NewTask(3, "draft", NoDate, "do", "subTaskFor", 3, 2) >>

UnclassifiedDocument ==
    << NewTask(1, "essay", DayOf(2024, 1, 1), "unclassified", "notClassifiedYet", 1, NoParent),
       NewTask(2, "report", NoDate, "unclassified", "notClassifiedYet", 2, NoParent) >>

InitialDocuments == { <<>>, ChainDocument, UnclassifiedDocument }

\* AppSettings values the settings document holds; before its first delivery
\* the session works with DEFAULT_SETTINGS, one of them.
SettingsDocuments == { [enableCoaching |-> TRUE, apiKey |-> k] : k \in {"", "key"} }

\* -------------------------------------------------------------------- state
VARIABLES
    tasks,              \* useState<Task[]>: the local collection
    settings,           \* useState<AppSettings>
    globalError,        \* App's globalError ("none" for null)
    toast,              \* the message of the last toast (NoMessage: none shown yet)
    isApiKeyModalOpen,  \* the credential prompt
    subtaskModal,       \* ModalState<SubtaskModalData>
    breakdown,          \* the breakdown request in flight
    batch,              \* the classifyUnclassifiedTasks call in flight
    single,             \* the reclassifySingleTask call in flight
    coaching,           \* a getAIMoveReasoning call is in flight
    writes,             \* saveData('tasks', ...) calls not yet settled
    remote,             \* content of the remote 'tasks' document
    inbox,              \* snapshots of the document not yet delivered
    nextId,             \* the next id generateTaskId hands out
    deleted,            \* ids removed by a permanent delete, here or in another session
    events,             \* user events and other sessions' writes so far
    listeners,          \* the onSnapshot subscriptions of the data-fetching effect
    studentContext,     \* useState<StudentContext>
    store,              \* content of the remote 'studentContext' and 'settings' documents
    importer            \* the handleImportData call in progress

vars == <<tasks, settings, globalError, toast, isApiKeyModalOpen, subtaskModal,
          breakdown, batch, single, coaching, writes, remote, inbox, nextId,
          deleted, events, listeners, studentContext, store, importer>>

NoTask == [id |-> 0]

\* A toast or success message: the template and the count it quotes, if any.
Message(text) == [text |-> text, count |-> 0]

\* No success message (undefined).
NoMessage == Message("none")

ClosedModal == [isOpen |-> FALSE, task |-> NoTask, subtasks |-> <<>>, isLoading |-> FALSE]

IdleBreakdown == [pending |-> FALSE, task |-> NoTask]

\* snapshot: the tasks the handler closed over; pending: requests not yet
\* back; done: the values the settled promises hold; outcomes: what each
\* settled request came back with; count: successfulClassifications
IdleBatch == [state |-> "idle", snapshot |-> <<>>, pending |-> {}, done |-> <<>>,
              outcomes |-> <<>>, count |-> 0]

IdleSingle == [state |-> "idle", taskId |-> 0, snapshot |-> <<>>]

\* A listenToDocument call: "pending" while setupListener awaits getDb (the
\* handle it returned still calls the empty function), "listening" once
\* onSnapshot is registered, "cancelled" once onSnapshot's unsubscribe ran.
\* cleanup: the effect's cleanup has run.
\* StudentContext, by its goals field.
DEFAULT_STUDENT_CONTEXT == [goals |-> ""]

\* The context the user has saved before.
StoredContext == [goals |-> "exams"]

\* state: "reading" while the FileReader works, then the collection whose
\* saveData call is awaited; payload: the parsed file
IdleImporter == [state |-> "idle", payload |-> <<>>]

Listening == [tasks |-> "listening", settings |-> "listening", cleanup |-> FALSE]

AwaitingDb == [tasks |-> "pending", settings |-> "pending", cleanup |-> FALSE]

\* actionLoading holds 'classifyAll', 'import' or a task id: the spinner overlay lies
\* over the views, and their buttons, checkboxes and forms cannot be clicked.
Busy ==
    batch.state = "running" \/ single.state = "running" \/ importer.state # "idle"

\* One more event in a modal: Modal lies over the whole window, spinner
\* overlay included, and keeps the keyboard focus inside itself.
ModalEvent == events < MaxEvents /\ events' = events + 1

\* One more event in the views (a click, a submit), taken while neither the
\* spinner overlay nor a modal lies over them.
UserEvent == ~Busy /\ ~subtaskModal.isOpen /\ ~isApiKeyModalOpen /\ ModalEvent

\* A JSON value, by what the code tells apart: "missing" (no such key),
\* "falsy" (null, 0, "", false), "array", "object".  A snapshot handed to a
\* listener is the content of the document, "absent" when the document does
\* not exist, or "error" when the read failed.
Json(kind, value) == [kind |-> kind, value |-> value]

\* The two callbacks listenToDocument gives onSnapshot: what they pass on.
listenToDocument(snapshot, defaultValue) ==
    IF snapshot.kind = "error" THEN defaultValue
    ELSE IF snapshot.kind = "absent" THEN defaultValue
    ELSE IF snapshot.kind = "falsy" THEN defaultValue
    ELSE snapshot

\* A variant that keeps the collection when the content is not an array.
ArrayOrCurrent(data) == IF data.kind = "array" THEN data.value ELSE tasks

\* Array.isArray(data) ? data : []
ArrayOrEmpty(data) == IF data.kind = "array" THEN data.value ELSE <<>>

\* The session once the listeners of the data-fetching effect are registered.
Init ==
    /\ tasks = <<>>
    /\ settings \in SettingsDocuments
    /\ globalError = "none"
    /\ toast = NoMessage
    /\ isApiKeyModalOpen = FALSE
    /\ subtaskModal = ClosedModal
    /\ breakdown = IdleBreakdown
    /\ batch = IdleBatch
    /\ single = IdleSingle
    /\ coaching = FALSE
    /\ writes = <<>>
    /\ remote \in InitialDocuments
    /\ inbox = <<Json("array", remote)>>
    /\ nextId = Len(remote) + 1
    /\ deleted = {}
    /\ events = 0
    /\ listeners = Listening
    /\ studentContext = DEFAULT_STUDENT_CONTEXT
    /\ store = [studentContext |-> Json("object", StoredContext), settings |-> settings]
    /\ importer = IdleImporter

\* ------------------------------------------------------------ persistence
\* Room for one more outstanding write.
CanSave == Len(writes) + Len(inbox) < MaxWrites

\* A variant that hands saveData the collection of the previous render.
updateTasksSavesPrevious(newTasks, successMessage) ==
    /\ tasks' = newTasks
    /\ writes' = Append(writes, [data |-> tasks, msg |-> successMessage])

\* updateTasks(newTasks, successMessage): commit locally, then saveData.
updateTasks(newTasks, successMessage) ==
    /\ tasks' = newTasks
    /\ writes' = Append(writes, [data |-> newTasks, msg |-> successMessage])

\* A variant in which the store does not notify the session that wrote.
SaveResolvesSilently ==
    /\ writes # <<>>
    /\ remote' = Head(writes).data
    /\ writes' = Tail(writes)
    /\ toast' = IF Head(writes).msg # NoMessage THEN Head(writes).msg ELSE toast
    /\ UNCHANGED <<tasks, settings, globalError, isApiKeyModalOpen, subtaskModal,
                   breakdown, batch, single, coaching, inbox, nextId, deleted, events>>
    /\ UNCHANGED <<listeners, studentContext, store, importer>>

\* saveDataToFirestore resolves: the document is overwritten, the store
\* notifies the listener, saveData shows the success message if it has one.
SaveResolves ==
    /\ writes # <<>>
    /\ remote' = Head(writes).data
    /\ inbox' = Append(inbox, Json("array", Head(writes).data))
    /\ writes' = Tail(writes)
    /\ toast' = IF Head(writes).msg # NoMessage THEN Head(writes).msg ELSE toast
    /\ UNCHANGED events
    /\ UNCHANGED <<tasks, settings, globalError, isApiKeyModalOpen, subtaskModal,
                   breakdown, batch, single, coaching, nextId, deleted>>
    /\ UNCHANGED <<listeners, studentContext, store, importer>>

\* saveDataToFirestore rejects: saveData sets the global error; updateTasks
\* swallows the rethrown error.
SaveRejects ==
    /\ writes # <<>>
    /\ writes' = Tail(writes)
    /\ globalError' = "saveFailed"
    /\ UNCHANGED events
    /\ UNCHANGED <<tasks, settings, toast, isApiKeyModalOpen, subtaskModal,
                   breakdown, batch, single, coaching, remote, inbox, nextId, deleted>>
    /\ UNCHANGED <<listeners, studentContext, store, importer>>

\* The 'tasks' listener's callback: setTasks(Array.isArray(data) ? data : []).
SnapshotDelivered ==
    /\ listeners.tasks = "listening"
    /\ inbox # <<>>
    /\ tasks' = ArrayOrEmpty(listenToDocument(Head(inbox), Json("array", <<>>)))
    /\ inbox' = Tail(inbox)
    /\ UNCHANGED events
    /\ UNCHANGED <<settings, globalError, toast, isApiKeyModalOpen, subtaskModal,
                   breakdown, batch, single, coaching, writes, remote, nextId, deleted>>
    /\ UNCHANGED <<listeners, studentContext, store, importer>>

\* ----------------------------------------------------- task mutation service
handleAddTask(newTaskName, newDueDate) ==
    /\ UserEvent
    /\ IF Trim(newTaskName) = ""
       THEN /\ toast' = Message("nameEmpty")
            /\ UNCHANGED <<tasks, writes, nextId>>
       ELSE /\ CanSave /\ nextId <= MaxIds /\ Len(tasks) < MaxTasks
            /\ updateTasks(Append(tasks,
                   NewTask(nextId, Trim(newTaskName), newDueDate, "unclassified",
                           "notClassifiedYet", nextId, NoParent)), NoMessage)
            /\ nextId' = nextId + 1
            /\ UNCHANGED toast
    /\ UNCHANGED <<settings, globalError, isApiKeyModalOpen, subtaskModal, breakdown,
                   batch, single, coaching, remote, inbox, deleted>>
    /\ UNCHANGED <<listeners, studentContext, store, importer>>

\* subtasks.filter((_, i) => selectedSubtasks[i])
SelectedNames(subtasks, selected) ==
    LET idx == SelectSeq([i \in 1..Len(subtasks) |-> i], LAMBDA i : i \in selected)
    IN [k \in 1..Len(idx) |-> subtasks[idx[k]]]

\* A variant that calls generateTaskId once for the whole selection.
NewSubtasksOneId(subtaskNames, parentTask, firstId) ==
    [i \in 1..Len(subtaskNames) |->
        NewTask(firstId, subtaskNames[i], NoDate, parentTask.quadrant,
                "subTaskFor", firstId, parentTask.id)]

\* subtaskNames.map(name => ({ id: generateTaskId(), name, ... }))
NewSubtasks(subtaskNames, parentTask, firstId) ==
    [i \in 1..Len(subtaskNames) |->
        NewTask(firstId + i - 1, subtaskNames[i], NoDate, parentTask.quadrant,
                "subTaskFor", firstId, parentTask.id)]

\* "Add Selected" in the sub-task modal: handleAddSubtasks(names, modal's task)
handleAddSubtasks(selected) ==
    LET names == SelectedNames(subtaskModal.subtasks, selected) IN
    /\ subtaskModal.isOpen /\ ~subtaskModal.isLoading /\ Len(subtaskModal.subtasks) > 0
    /\ CanSave /\ nextId + Len(names) - 1 <= MaxIds /\ Len(tasks) + Len(names) <= MaxTasks
    /\ updateTasks(tasks \o NewSubtasks(names, subtaskModal.task, nextId), Message("subtasksAdded"))
    /\ nextId' = nextId + Len(names)
    /\ subtaskModal' = ClosedModal
    /\ ModalEvent
    /\ UNCHANGED <<settings, globalError, toast, isApiKeyModalOpen, breakdown, batch,
                   single, coaching, remote, inbox, deleted>>
    /\ UNCHANGED <<listeners, studentContext, store, importer>>

\* A variant without the early return of line 173: the unchanged collection
\* is saved when the id is not found.
statusChangeSavesWithoutTask(taskId, newStatus, now, offset) ==
    /\ UserEvent
    /\ IF ~HasTask(tasks, taskId)
       THEN CanSave /\ updateTasks(tasks, NoMessage) /\ UNCHANGED nextId
       ELSE IF ~CallReturns(taskId, tasks, {})
       THEN \* getAllDescendantIds throws, the handler is left at line 177
            UNCHANGED <<tasks, writes, nextId>>
       ELSE /\ CanSave
            /\ CreatesSuccessor(tasks, taskId, newStatus)
                   => (nextId <= MaxIds /\ Len(tasks) < MaxTasks)
            /\ updateTasks(StatusChanged(tasks, taskId, newStatus, nextId, now, offset),
                           IF newStatus # "completed" THEN NoMessage
                           ELSE IF CreatesSuccessor(tasks, taskId, newStatus)
                                THEN Message("completedNextCreated")
                                ELSE Message("completed"))
            /\ nextId' = IF CreatesSuccessor(tasks, taskId, newStatus)
                         THEN nextId + 1 ELSE nextId
    /\ UNCHANGED <<settings, globalError, toast, isApiKeyModalOpen, subtaskModal,
                   breakdown, batch, single, coaching, remote, inbox, deleted>>
    /\ UNCHANGED <<listeners, studentContext, store, importer>>

handleTaskStatusChange(taskId, newStatus, now, offset) ==
    /\ UserEvent
    /\ IF ~HasTask(tasks, taskId)
       THEN UNCHANGED <<tasks, writes, nextId>>
       ELSE IF ~CallReturns(taskId, tasks, {})
       THEN \* getAllDescendantIds throws, the handler is left at line 177
            UNCHANGED <<tasks, writes, nextId>>
       ELSE /\ CanSave
            /\ CreatesSuccessor(tasks, taskId, newStatus)
                   => (nextId <= MaxIds /\ Len(tasks) < MaxTasks)
            /\ updateTasks(StatusChanged(tasks, taskId, newStatus, nextId, now, offset),
                           IF newStatus # "completed" THEN NoMessage
                           ELSE IF CreatesSuccessor(tasks, taskId, newStatus)
                                THEN Message("completedNextCreated")
                                ELSE Message("completed"))
            /\ nextId' = IF CreatesSuccessor(tasks, taskId, newStatus)
                         THEN nextId + 1 ELSE nextId
    /\ UNCHANGED <<settings, globalError, toast, isApiKeyModalOpen, subtaskModal,
                   breakdown, batch, single, coaching, remote, inbox, deleted>>
    /\ UNCHANGED <<listeners, studentContext, store, importer>>

\* The rows of the trash view: trashed top-level tasks.
InTrashView(ts, taskId) ==
    /\ HasTask(ts, taskId)
    /\ FindTask(ts, taskId).status = "trashed"
    /\ FindTask(ts, taskId).parentId = NoParent

\* A selective recovery: descendants that are not in the trash keep their status.
recoverTrashedOnly(taskId) ==
    /\ InTrashView(tasks, taskId)
    /\ CanSave
    /\ updateTasks(SetStatusOfTrashedOnly(tasks, <<taskId>> \o getAllDescendantIds(taskId, tasks),
                               "active"), Message("recovered"))
    /\ UserEvent
    /\ UNCHANGED <<settings, globalError, toast, isApiKeyModalOpen, subtaskModal,
                   breakdown, batch, single, coaching, remote, inbox, nextId, deleted>>
    /\ UNCHANGED <<listeners, studentContext, store, importer>>

handleRecoverTask(taskId) ==
    /\ InTrashView(tasks, taskId)
    /\ CanSave
    /\ updateTasks(SetStatusOf(tasks, <<taskId>> \o getAllDescendantIds(taskId, tasks),
                               "active"), Message("recovered"))
    /\ UserEvent
    /\ UNCHANGED <<settings, globalError, toast, isApiKeyModalOpen, subtaskModal,
                   breakdown, batch, single, coaching, remote, inbox, nextId, deleted>>
    /\ UNCHANGED <<listeners, studentContext, store, importer>>

\* A variant that removes the first listed id only.
WithoutFirstId(ts, ids) == SelectSeq(ts, LAMBDA t : t.id # ids[1])

\* tasks.filter(t => !idsToDelete.includes(t.id))
WithoutIds(ts, ids) == SelectSeq(ts, LAMBDA t : ~Includes(ids, t.id))

\* window.confirm answered yes
handlePermanentDelete(taskId) ==
    LET idsToDelete == <<taskId>> \o getAllDescendantIds(taskId, tasks) IN
    /\ InTrashView(tasks, taskId)
    /\ CanSave
    /\ updateTasks(WithoutIds(tasks, idsToDelete), Message("permanentlyDeleted"))
    /\ deleted' = deleted \cup {idsToDelete[i] : i \in 1..Len(idsToDelete)}
    /\ UserEvent
    /\ UNCHANGED <<settings, globalError, toast, isApiKeyModalOpen, subtaskModal,
                   breakdown, batch, single, coaching, remote, inbox, nextId>>
    /\ UNCHANGED <<listeners, studentContext, store, importer>>

\* window.confirm answered yes
handleEmptyTrash ==
    /\ \E i \in 1..Len(tasks) : InTrashView(tasks, tasks[i].id)
    /\ CanSave
    /\ updateTasks(SelectSeq(tasks, LAMBDA t : t.status # "trashed"), Message("trashEmptied"))
    /\ deleted' = deleted \cup {tasks[i].id : i \in {j \in 1..Len(tasks) : tasks[j].status = "trashed"}}
    /\ UserEvent
    /\ UNCHANGED <<settings, globalError, toast, isApiKeyModalOpen, subtaskModal,
                   breakdown, batch, single, coaching, remote, inbox, nextId>>
    /\ UNCHANGED <<listeners, studentContext, store, importer>>

\* A variant that also overwrites the reasoning of the edited task.
updateDetailsAndReasoning(taskId, newName, newDueDate, newRecurring) ==
    /\ HasTask(tasks, taskId)
    /\ CanSave
    /\ updateTasks([i \in 1..Len(tasks) |->
                       IF tasks[i].id = taskId
                       THEN [tasks[i] EXCEPT !.name = newName, !.dueDate = newDueDate,
                                             !.recurring = newRecurring,
                                             !.reasoning = "edited"]
                       ELSE tasks[i]], Message("updated"))
    /\ UserEvent
    /\ UNCHANGED <<settings, globalError, toast, isApiKeyModalOpen, subtaskModal,
                   breakdown, batch, single, coaching, remote, inbox, nextId, deleted>>
    /\ UNCHANGED <<listeners, studentContext, store, importer>>

handleUpdateTaskDetails(taskId, newName, newDueDate, newRecurring) ==
    /\ HasTask(tasks, taskId)
    /\ CanSave
    /\ updateTasks([i \in 1..Len(tasks) |->
                       IF tasks[i].id = taskId
                       THEN [tasks[i] EXCEPT !.name = newName, !.dueDate = newDueDate,
                                             !.recurring = newRecurring]
                       ELSE tasks[i]], Message("updated"))
    /\ UserEvent
    /\ UNCHANGED <<settings, globalError, toast, isApiKeyModalOpen, subtaskModal,
                   breakdown, batch, single, coaching, remote, inbox, nextId, deleted>>
    /\ UNCHANGED <<listeners, studentContext, store, importer>>

handleMoveTaskQuadrant(taskId, oldQuadrant, newQuadrant) ==
    /\ HasTask(tasks, taskId)
    /\ FindTask(tasks, taskId).parentId = NoParent
    /\ FindTask(tasks, taskId).quadrant = oldQuadrant /\ newQuadrant # oldQuadrant
    /\ CanSave
    /\ updateTasks([i \in 1..Len(tasks) |->
                       IF tasks[i].id = taskId
                       THEN [tasks[i] EXCEPT !.quadrant = newQuadrant,
                                             !.reasoning = "manuallyMoved"]
                       ELSE tasks[i]], NoMessage)
    /\ coaching' = IF settings.enableCoaching /\ settings.apiKey # "" THEN TRUE ELSE coaching
    /\ UserEvent
    /\ UNCHANGED <<settings, globalError, toast, isApiKeyModalOpen, subtaskModal,
                   breakdown, batch, single, remote, inbox, nextId, deleted>>
    /\ UNCHANGED <<listeners, studentContext, store, importer>>

\* What the coaching call can meet: JSON with an insight, JSON without one,
\* text that is not JSON, a network error, a key the service rejects.
CoachingReplies ==
    { [kind |-> "json", insight |-> "tip"], [kind |-> "json", insight |-> ""],
      [kind |-> "text", insight |-> ""], [kind |-> "networkError", insight |-> ""],
      [kind |-> "keyRejected", insight |-> ""] }

\* A variant that returns the error text as the insight.
reasoningOrErrorText(reply) ==
    IF reply.kind = "json" THEN reply.insight ELSE "error"

\* getAIMoveReasoning: the parsed insight, the empty one on any failure.
getAIMoveReasoning(reply) ==
    IF reply.kind = "json" THEN reply.insight ELSE ""

\* The awaited getAIMoveReasoning comes back: a non-empty insight is shown
\* as a toast.
CoachingSettles(reply) ==
    /\ coaching
    /\ coaching' = FALSE
    /\ toast' = IF getAIMoveReasoning(reply) # "" THEN Message("coach") ELSE toast
    /\ UNCHANGED events
    /\ UNCHANGED <<tasks, settings, globalError, isApiKeyModalOpen, subtaskModal,
                   breakdown, batch, single, writes, remote, inbox, nextId, deleted>>
    /\ UNCHANGED <<listeners, studentContext, store, importer>>


\* ------------------------------------------------ classification orchestrator
\* The results array of Promise.all, in the order of tasksToClassify.
BatchResults(b) ==
    LET toClassify == TasksToClassify(b.snapshot)
    IN [i \in 1..Len(toClassify) |-> b.done[toClassify[i].id]]

\* `${successfulClassifications} task(s) classified by AI.` when the count is
\* positive, "AI classification attempted." otherwise.
BatchMessage(count) ==
    IF count > 0 THEN [text |-> "classifiedByAI", count |-> count]
    ELSE Message("classificationAttempted")

\* A variant without the check of settings.apiKey at line 269.
classifyWithoutKeyCheck ==
    /\ UserEvent
    /\ IF TasksToClassify(tasks) = <<>>
       THEN /\ toast' = Message("noUnclassifiedTasks")
            /\ UNCHANGED <<globalError, isApiKeyModalOpen, batch>>
       ELSE /\ batch.state = "idle"
            /\ globalError' = "none"
            /\ batch' = [state |-> "running", snapshot |-> tasks,
                         pending |-> TaskIds(TasksToClassify(tasks)),
                         done |-> <<>>, outcomes |-> <<>>, count |-> 0]
            /\ UNCHANGED <<toast, isApiKeyModalOpen>>
    /\ UNCHANGED <<tasks, settings, subtaskModal, breakdown, single, coaching, writes,
                   remote, inbox, nextId, deleted>>
    /\ UNCHANGED <<listeners, studentContext, store, importer>>

\* "Classify with AI": the handler up to its first await.
classifyUnclassifiedTasks ==
    /\ UserEvent
    /\ IF TasksToClassify(tasks) = <<>>
       THEN /\ toast' = Message("noUnclassifiedTasks")
            /\ UNCHANGED <<globalError, isApiKeyModalOpen, batch>>
       ELSE IF settings.apiKey = ""
       THEN /\ isApiKeyModalOpen' = TRUE
            /\ UNCHANGED <<globalError, toast, batch>>
       ELSE /\ batch.state = "idle"
            /\ globalError' = "none"
            /\ batch' = [state |-> "running", snapshot |-> tasks,
                         pending |-> TaskIds(TasksToClassify(tasks)),
                         done |-> <<>>, outcomes |-> <<>>, count |-> 0]
            /\ UNCHANGED <<toast, isApiKeyModalOpen>>
    /\ UNCHANGED <<tasks, settings, subtaskModal, breakdown, single, coaching, writes,
                   remote, inbox, nextId, deleted>>
    /\ UNCHANGED <<listeners, studentContext, store, importer>>

\* One request of the batch comes back while Promise.all is still waiting.
\* The last one to come back lets Promise.all resolve, and the merge runs in
\* the same turn.
BatchRequestSettles(taskId, reply) ==
    LET outcome == performAIClassification(reply)
        task == FindTask(batch.snapshot, taskId)
        rejects == ~outcome.ok /\ outcome.apiKeyMessage
        entry == IF outcome.ok THEN ClassifiedTask(task, outcome.result)
                 ELSE FailedTask(task)
        after == [batch EXCEPT
                     !.pending = @ \ {taskId},
                     !.done = (taskId :> entry) @@ @,
                     !.outcomes = (taskId :> outcome) @@ @,
                     !.count = IF outcome.ok THEN @ + 1 ELSE @]
    IN
    /\ batch.state = "running"
    /\ taskId \in batch.pending
    /\ UNCHANGED events
    /\ globalError' = IF ~outcome.ok /\ ~outcome.apiKeyMessage
                      THEN "classificationFailed" ELSE globalError
    /\ IF rejects
       THEN \* catch (e): e.message includes "API key"
            /\ isApiKeyModalOpen' = TRUE
            /\ batch' = IF batch.pending = {taskId} THEN IdleBatch
                        ELSE [batch EXCEPT !.state = "rejected", !.pending = @ \ {taskId}]
            /\ UNCHANGED <<tasks, writes>>
       ELSE IF after.pending # {}
       THEN /\ batch' = after
            /\ UNCHANGED <<tasks, writes, isApiKeyModalOpen>>
       ELSE /\ CanSave
            /\ updateTasks(MergeResults(batch.snapshot, BatchResults(after)),
                           BatchMessage(after.count))
            /\ batch' = IdleBatch
            /\ UNCHANGED isApiKeyModalOpen
    /\ UNCHANGED <<settings, toast, subtaskModal, breakdown, single, coaching, remote,
                   inbox, nextId, deleted>>
    /\ UNCHANGED <<listeners, studentContext, store, importer>>

\* A request comes back after Promise.all has rejected: its own handlers
\* still run, nothing waits for its value.
LateRequestSettles(taskId, reply) ==
    LET outcome == performAIClassification(reply) IN
    /\ batch.state = "rejected"
    /\ taskId \in batch.pending
    /\ UNCHANGED events
    /\ globalError' = IF ~outcome.ok /\ ~outcome.apiKeyMessage
                      THEN "classificationFailed" ELSE globalError
    /\ batch' = IF batch.pending = {taskId} THEN IdleBatch
                ELSE [batch EXCEPT !.pending = @ \ {taskId}]
    /\ UNCHANGED <<tasks, settings, toast, isApiKeyModalOpen, subtaskModal, breakdown,
                   single, coaching, writes, remote, inbox, nextId, deleted>>
    /\ UNCHANGED <<listeners, studentContext, store, importer>>

\* "Re-classify with AI" (shown for classified top-level tasks): the handler
\* up to its await.
reclassifySingleTask(taskId) ==
    /\ HasTask(tasks, taskId)
    /\ FindTask(tasks, taskId).parentId = NoParent
    /\ FindTask(tasks, taskId).quadrant # "unclassified"
    /\ FindTask(tasks, taskId).status # "trashed"
    /\ UserEvent
    /\ IF settings.apiKey = ""
       THEN /\ isApiKeyModalOpen' = TRUE
            /\ UNCHANGED <<globalError, single>>
       ELSE /\ single.state = "idle"
            /\ globalError' = "none"
            /\ single' = [state |-> "running", taskId |-> taskId, snapshot |-> tasks]
            /\ UNCHANGED isApiKeyModalOpen
    /\ UNCHANGED <<tasks, settings, toast, subtaskModal, breakdown, batch, coaching,
                   writes, remote, inbox, nextId, deleted>>
    /\ UNCHANGED <<listeners, studentContext, store, importer>>

\* The re-classification request comes back.
ReclassifySettles(reply) ==
    LET outcome == performAIClassification(reply)
        task == FindTask(single.snapshot, single.taskId)
    IN
    /\ single.state = "running"
    /\ UNCHANGED events
    /\ single' = IdleSingle
    /\ IF outcome.ok
       THEN /\ CanSave
            /\ updateTasks(ReplaceTask(single.snapshot, single.taskId,
                                       ClassifiedTask(task, outcome.result)),
                           Message("reclassified"))
            /\ UNCHANGED <<globalError, isApiKeyModalOpen>>
       ELSE IF outcome.apiKeyMessage
       THEN /\ isApiKeyModalOpen' = TRUE
            /\ UNCHANGED <<tasks, writes, globalError>>
       ELSE /\ CanSave
            /\ globalError' = "reclassificationFailed"
            /\ updateTasks(ReplaceTask(single.snapshot, single.taskId,
                               Spread(task, [reasoning |-> "reclassificationFailed"])),
                           NoMessage)
            /\ UNCHANGED isApiKeyModalOpen
    /\ UNCHANGED <<settings, toast, subtaskModal, breakdown, batch, coaching, remote,
                   inbox, nextId, deleted>>
    /\ UNCHANGED <<listeners, studentContext, store, importer>>

\* "AI Breakdown" (shown for top-level tasks): the handler up to its await.
handleAIBreakdown(taskId) ==
    /\ HasTask(tasks, taskId)
    /\ FindTask(tasks, taskId).parentId = NoParent
    /\ UserEvent
    /\ IF settings.apiKey = ""
       THEN /\ isApiKeyModalOpen' = TRUE
            /\ UNCHANGED <<globalError, subtaskModal, breakdown>>
       ELSE /\ ~breakdown.pending
            /\ globalError' = "none"
            /\ subtaskModal' = [isOpen |-> TRUE, task |-> FindTask(tasks, taskId),
                                subtasks |-> <<>>, isLoading |-> TRUE]
            /\ breakdown' = [pending |-> TRUE, task |-> FindTask(tasks, taskId)]
            /\ UNCHANGED isApiKeyModalOpen
    /\ UNCHANGED <<tasks, settings, toast, batch, single, coaching, writes, remote,
                   inbox, nextId, deleted>>
    /\ UNCHANGED <<listeners, studentContext, store, importer>>

\* The breakdown request comes back.
BreakdownSettles(reply) ==
    /\ breakdown.pending
    /\ breakdown' = IdleBreakdown
    /\ UNCHANGED events
    /\ IF reply.kind = "json"
       THEN /\ subtaskModal' = [isOpen |-> TRUE, task |-> breakdown.task,
                                subtasks |-> reply.subtasks, isLoading |-> FALSE]
            /\ UNCHANGED <<globalError, isApiKeyModalOpen>>
       ELSE IF reply.apiKeyMessage
       THEN /\ subtaskModal' = ClosedModal
            /\ isApiKeyModalOpen' = TRUE
            /\ UNCHANGED globalError
       ELSE /\ globalError' = "breakdownFailed"
            /\ subtaskModal' = [isOpen |-> TRUE, task |-> breakdown.task,
                                subtasks |-> <<>>, isLoading |-> FALSE]
            /\ UNCHANGED isApiKeyModalOpen
    /\ UNCHANGED <<tasks, settings, toast, batch, single, coaching, writes, remote,
                   inbox, nextId, deleted>>
    /\ UNCHANGED <<listeners, studentContext, store, importer>>

\* The sub-task modal's Cancel / close button.
closeSubtaskModal ==
    /\ subtaskModal.isOpen
    /\ subtaskModal' = ClosedModal
    /\ ModalEvent
    /\ UNCHANGED <<tasks, settings, globalError, toast, isApiKeyModalOpen, breakdown,
                   batch, single, coaching, writes, remote, inbox, nextId,
                   deleted>>
    /\ UNCHANGED <<listeners, studentContext, store, importer>>

\* The 'settings' listener's callback: setSettings(data || DEFAULT_SETTINGS).
\* (Typing in the settings form calls the same setter.)
SettingsDelivered(data) ==
    /\ listeners.settings = "listening"
    /\ settings # data
    /\ settings' = data
    /\ UNCHANGED events
    /\ UNCHANGED <<tasks, globalError, toast, isApiKeyModalOpen, subtaskModal, breakdown,
                   batch, single, coaching, writes, remote, inbox, nextId,
                   deleted>>
    /\ store' = [store EXCEPT !.settings = data]
    /\ UNCHANGED <<listeners, studentContext, importer>>

\* The credential prompt is closed (closeModal / handleGoToSettings).
closeApiKeyModal ==
    /\ isApiKeyModalOpen
    /\ isApiKeyModalOpen' = FALSE
    /\ ModalEvent
    /\ UNCHANGED <<tasks, settings, globalError, toast, subtaskModal, breakdown, batch,
                   single, coaching, writes, remote, inbox, nextId, deleted>>
    /\ UNCHANGED <<listeners, studentContext, store, importer>>

\* What another session of the same user, running the same code on the stored
\* document, writes back: the document without a task and its descendants
\* (handlePermanentDelete), with a task renamed (handleUpdateTaskDetails), or
\* with a new task (handleAddTask; generateTaskId gives it an id of its own).
OtherSessionDocuments ==
    { WithoutIds(remote, <<id>> \o getAllDescendantIds(id, remote)) : id \in TaskIds(remote) }
    \cup { [i \in 1..Len(remote) |->
                IF remote[i].id = id THEN [remote[i] EXCEPT !.name = "report"] ELSE remote[i]] :
             id \in TaskIds(remote) }
    \cup ( IF nextId <= MaxIds /\ Len(remote) < MaxTasks
           THEN { Append(remote, NewTask(nextId, "notes", NoDate, "unclassified",
                                         "notClassifiedYet", nextId, NoParent)) }
           ELSE {} )

\* Another session's setDoc on the same document: the store takes it and
\* notifies this session's listener.
OtherSessionWrites(data) ==
    /\ data # remote
    /\ CanSave
    /\ events < MaxEvents /\ events' = events + 1
    /\ remote' = data
    /\ inbox' = Append(inbox, Json("array", data))
    /\ nextId' = IF nextId \in TaskIds(data) THEN nextId + 1 ELSE nextId
    /\ deleted' = deleted \cup (TaskIds(remote) \ TaskIds(data))
    /\ UNCHANGED <<tasks, settings, globalError, toast, isApiKeyModalOpen, subtaskModal,
                   breakdown, batch, single, coaching, writes>>
    /\ UNCHANGED <<listeners, studentContext, store, importer>>

\* Another session overwrites the document while a write of this session is
\* still outstanding.
OtherSessionWritesMeanwhile(data) ==
    /\ writes # <<>> /\ Len(inbox) < MaxWrites
    /\ data # remote
    /\ events < MaxEvents /\ events' = events + 1
    /\ remote' = data
    /\ inbox' = Append(inbox, Json("array", data))
    /\ nextId' = IF nextId \in TaskIds(data) THEN nextId + 1 ELSE nextId
    /\ deleted' = deleted \cup (TaskIds(remote) \ TaskIds(data))
    /\ UNCHANGED <<tasks, settings, globalError, toast, isApiKeyModalOpen, subtaskModal,
                   breakdown, batch, single, coaching, writes>>
    /\ UNCHANGED <<listeners, studentContext, store, importer>>

\* ---------------------------------------------------------------- delivery
\* What the 'tasks' document can hold besides an array of tasks: nothing (it
\* does not exist), a content field that is null, or one of another shape.
OtherContents == { Json("absent", <<>>), Json("falsy", <<>>), Json("object", <<>>) }

\* The 'tasks' document is replaced or removed from outside the application:
\* the store notifies the listener.  It then holds no task.
StoreNotifies(snapshot) ==
    /\ CanSave
    /\ events < MaxEvents /\ events' = events + 1
    /\ remote' = <<>>
    /\ inbox' = Append(inbox, snapshot)
    /\ deleted' = deleted \cup TaskIds(remote)
    /\ UNCHANGED <<tasks, settings, globalError, toast, isApiKeyModalOpen, subtaskModal,
                   breakdown, batch, single, coaching, writes, nextId, listeners,
                   studentContext, store, importer>>

\* The read of the 'tasks' document fails (permission denied, quota): the
\* store calls the listener's error callback.  The document is as it was.
ReadFails ==
    /\ CanSave
    /\ events < MaxEvents /\ events' = events + 1
    /\ inbox' = Append(inbox, Json("error", <<>>))
    /\ UNCHANGED <<tasks, settings, globalError, toast, isApiKeyModalOpen, subtaskModal,
                   breakdown, batch, single, coaching, writes, remote, nextId, deleted,
                   listeners, studentContext, store, importer>>

ContextSnapshots ==
    { Json("absent", <<>>), Json("falsy", <<>>), Json("object", StoredContext),
      Json("object", [goals |-> "graduate"]) }

\* The 'studentContext' document changes and its listener's callback runs:
\* setStudentContext(data || DEFAULT_STUDENT_CONTEXT).
ContextDelivered(snapshot) ==
    /\ store.studentContext # snapshot
    /\ events < MaxEvents /\ events' = events + 1
    /\ store' = [store EXCEPT !.studentContext = snapshot]
    /\ studentContext' =
           listenToDocument(snapshot, Json("object", DEFAULT_STUDENT_CONTEXT)).value
    /\ UNCHANGED <<tasks, settings, globalError, toast, isApiKeyModalOpen, subtaskModal,
                   breakdown, batch, single, coaching, writes, remote, inbox, nextId,
                   deleted, listeners, importer>>

\* ------------------------------------------------------------------ import
ImportedTasks == << NewTask(1, "thesis", NoDate, "schedule", "ai", 1, NoParent) >>

ImportedContext == [goals |-> "graduate"]

ImportedSettings == [enableCoaching |-> FALSE, apiKey |-> "key"]

\* What the chosen file holds: text that is not JSON, or an object.
ImportFiles ==
    { [parsed |-> FALSE, tasks |-> Json("missing", <<>>),
       studentContext |-> Json("missing", <<>>), settings |-> Json("missing", <<>>)] }
    \cup
    { [parsed |-> TRUE, tasks |-> t, studentContext |-> c, settings |-> g] :
        t \in { Json("missing", <<>>), Json("falsy", <<>>), Json("object", <<>>),
                Json("array", <<>>), Json("array", ImportedTasks) },
        c \in { Json("missing", <<>>), Json("object", ImportedContext) },
        g \in { Json("missing", <<>>), Json("object", ImportedSettings) } }

\* !value is false
Truthy(v) == v.kind \in {"array", "object"}

\* A variant of the checks without the Array.isArray test of line 398.
KeysPresent(importedData) ==
    /\ Truthy(importedData.tasks)
    /\ Truthy(importedData.studentContext)
    /\ Truthy(importedData.settings)

\* The two checks of lines 395-400 pass.
ValidImport(importedData) ==
    /\ Truthy(importedData.tasks)
    /\ Truthy(importedData.studentContext)
    /\ Truthy(importedData.settings)
    /\ importedData.tasks.kind = "array"

\* A file is chosen in the import input: the FileReader starts.
handleImportData ==
    /\ UserEvent
    /\ importer' = [state |-> "reading", payload |-> <<>>]
    /\ globalError' = "none"
    /\ UNCHANGED <<tasks, settings, toast, isApiKeyModalOpen, subtaskModal, breakdown,
                   batch, single, coaching, writes, remote, inbox, nextId, deleted,
                   listeners, studentContext, store>>

\* reader.onerror
ReaderFails ==
    /\ importer.state = "reading"
    /\ importer' = IdleImporter
    /\ globalError' = "readFailed"
    /\ UNCHANGED <<tasks, settings, toast, isApiKeyModalOpen, subtaskModal, breakdown,
                   batch, single, coaching, writes, remote, inbox, nextId, deleted,
                   events, listeners, studentContext, store>>

\* reader.onload up to its first await: JSON.parse, the two checks,
\* window.confirm, and the call of saveData('tasks', ...).
ReaderLoads(file, confirmed) ==
    /\ importer.state = "reading"
    /\ IF ~file.parsed \/ ~ValidImport(file)
       THEN /\ globalError' = "importFailed"
            /\ importer' = IdleImporter
       ELSE IF ~confirmed
       THEN /\ importer' = IdleImporter
            /\ UNCHANGED globalError
       ELSE /\ importer' = [state |-> "tasks", payload |-> file]
            /\ UNCHANGED globalError
    /\ UNCHANGED <<tasks, settings, toast, isApiKeyModalOpen, subtaskModal, breakdown,
                   batch, single, coaching, writes, remote, inbox, nextId, deleted,
                   events, listeners, studentContext, store>>

\* Ids of the file come from earlier calls of generateTaskId.
IdAfter(ts, id) ==
    IF \E i \in 1..Len(ts) : ts[i].id >= id
    THEN 1 + CHOOSE m \in TaskIds(ts) : \A i \in 1..Len(ts) : ts[i].id <= m
    ELSE id

\* The saveData call the import awaits resolves: the document is
\* overwritten, the local state is set, and the next saveData is called
\* (after the third one the toast is shown).
ImportSaveResolves ==
    LET payload == importer.payload IN
    /\ importer.state \in {"tasks", "studentContext", "settings"}
    /\ IF importer.state = "tasks"
       THEN /\ remote' = payload.tasks.value
            /\ inbox' = Append(inbox, payload.tasks)
            /\ tasks' = payload.tasks.value
            /\ nextId' = IdAfter(payload.tasks.value, nextId)
            /\ importer' = [importer EXCEPT !.state = "studentContext"]
            /\ UNCHANGED <<studentContext, settings, store, toast>>
       ELSE IF importer.state = "studentContext"
       THEN /\ store' = [store EXCEPT !.studentContext = payload.studentContext]
            /\ studentContext' = payload.studentContext.value
            /\ importer' = [importer EXCEPT !.state = "settings"]
            /\ UNCHANGED <<tasks, remote, inbox, nextId, settings, toast>>
       ELSE /\ store' = [store EXCEPT !.settings = payload.settings.value]
            /\ settings' = payload.settings.value
            /\ toast' = Message("imported")
            /\ importer' = IdleImporter
            /\ UNCHANGED <<tasks, remote, inbox, nextId, studentContext>>
    /\ UNCHANGED <<globalError, isApiKeyModalOpen, subtaskModal, breakdown, batch,
                   single, coaching, writes, deleted, events, listeners>>

\* The awaited saveData call rejects: saveData sets the global error and
\* rethrows, the catch of the import sets it again and the import ends.
ImportSaveRejects ==
    /\ importer.state \in {"tasks", "studentContext", "settings"}
    /\ importer' = IdleImporter
    /\ globalError' = "importFailed"
    /\ UNCHANGED <<tasks, settings, toast, isApiKeyModalOpen, subtaskModal, breakdown,
                   batch, single, coaching, writes, remote, inbox, nextId, deleted,
                   events, listeners, studentContext, store>>

\* ------------------------------------------------------ listener lifecycle
Documents == {"tasks", "settings"}

\* setupListener resumes after `await getDb()`: onSnapshot is registered and
\* its unsubscribe function is stored in the closure's variable.  Nothing
\* here looks at whether the returned handle has been called already.
setupListener(collectionName) ==
    /\ listeners[collectionName] = "pending"
    /\ listeners' = [listeners EXCEPT ![collectionName] = "listening"]
    /\ UNCHANGED <<tasks, settings, globalError, toast, isApiKeyModalOpen, subtaskModal,
                   breakdown, batch, single, coaching, writes, remote, inbox, nextId,
                   deleted, events>>
    /\ UNCHANGED <<studentContext, store, importer>>

\* The handle listenToDocument returned: it calls whatever `unsubscribe` holds
\* at that moment, the empty function while the set-up is still pending.
Unsubscribed(state) == IF state = "listening" THEN "cancelled" ELSE state

\* The effect's cleanup: unsubscribes.forEach(unsub => unsub()).
EffectCleanup ==
    /\ ~listeners.cleanup
    /\ listeners' = [tasks |-> Unsubscribed(listeners.tasks),
                     settings |-> Unsubscribed(listeners.settings),
                     cleanup |-> TRUE]
    /\ UNCHANGED <<tasks, settings, globalError, toast, isApiKeyModalOpen, subtaskModal,
                   breakdown, batch, single, coaching, writes, remote, inbox, nextId,
                   deleted, events>>
    /\ UNCHANGED <<studentContext, store, importer>>

\* --------------------------------------------------------------------- next
\* Ids a handler is called with: the ids on screen, and one that is not there.
AllIds == TaskIds(tasks) \cup {nextId}

Next ==
    \/ \E n \in TypedNames, d \in TypedDueDates : handleAddTask(n, d)
    \/ \E sel \in SUBSET (1..2) : handleAddSubtasks(sel)
    \/ \E id \in AllIds, s \in Statuses, now \in NowInstants, offset \in TimeZones :
           handleTaskStatusChange(id, s, now, offset)
    \/ \E id \in AllIds : handleRecoverTask(id)
    \/ \E id \in AllIds : handlePermanentDelete(id)
    \/ handleEmptyTrash
    \/ \E id \in AllIds, e \in EditInputs : handleUpdateTaskDetails(id, e[1], e[2], e[3])
    \/ \E id \in AllIds, q \in QuadrantTypes, r \in MoveTargets :
           handleMoveTaskQuadrant(id, q, r)
    \/ \E reply \in CoachingReplies : CoachingSettles(reply)
    \/ classifyUnclassifiedTasks
    \/ \E id \in AllIds \cup batch.pending, r \in ClassificationReplies :
           BatchRequestSettles(id, r)
    \/ \E id \in AllIds \cup batch.pending, r \in ClassificationReplies :
           LateRequestSettles(id, r)
    \/ \E id \in AllIds : reclassifySingleTask(id)
    \/ \E r \in ClassificationReplies : ReclassifySettles(r)
    \/ \E id \in AllIds : handleAIBreakdown(id)
    \/ \E r \in BreakdownReplies : BreakdownSettles(r)
    \/ closeSubtaskModal
    \/ \E d \in SettingsDocuments : SettingsDelivered(d)
    \/ closeApiKeyModal
    \/ \E d \in OtherSessionDocuments : OtherSessionWrites(d)
    \/ SaveResolves
    \/ SaveRejects
    \/ SnapshotDelivered

\* The whole layer.
Spec == Init /\ [][Next]_vars

\* The task mutation service with persistence and delivery, no AI call.
NextTasks ==
    \/ \E n \in TypedNames, d \in TypedDueDates : handleAddTask(n, d)
    \/ \E id \in AllIds, s \in Statuses, now \in NowInstants, offset \in TimeZones :
           handleTaskStatusChange(id, s, now, offset)
    \/ \E id \in AllIds : handleRecoverTask(id)
    \/ \E id \in AllIds : handlePermanentDelete(id)
    \/ handleEmptyTrash
    \/ \E id \in AllIds, e \in EditInputs : handleUpdateTaskDetails(id, e[1], e[2], e[3])
    \/ \E id \in AllIds, q \in QuadrantTypes, r \in MoveTargets :
           handleMoveTaskQuadrant(id, q, r)
    \/ SaveResolves
    \/ SaveRejects
    \/ SnapshotDelivered

\* A session without an API key: no handler of the service reaches an AI call.
InitTasks == Init /\ settings.apiKey = ""

SpecTasks == InitTasks /\ [][NextTasks]_vars

\* The classification orchestrator with the mutations that can run while its
\* requests are outstanding.
NextClassify ==
    \/ \E id \in AllIds, s \in Statuses, now \in NowInstants :
           handleTaskStatusChange(id, s, now, 0)
    \/ \E id \in AllIds : handlePermanentDelete(id)
    \/ \E id \in AllIds : handleUpdateTaskDetails(id, "report", DayOf(2024, 1, 1), NoRecurring)
    \/ classifyUnclassifiedTasks
    \/ \E id \in AllIds \cup batch.pending, r \in ClassificationReplies :
           BatchRequestSettles(id, r)
    \/ \E id \in AllIds \cup batch.pending, r \in ClassificationReplies :
           LateRequestSettles(id, r)
    \/ \E id \in AllIds : reclassifySingleTask(id)
    \/ \E r \in ClassificationReplies : ReclassifySettles(r)
    \/ closeApiKeyModal
    \/ \E d \in SettingsDocuments : SettingsDelivered(d)
    \/ \E d \in OtherSessionDocuments : OtherSessionWrites(d)
    \/ SaveResolves
    \/ SaveRejects
    \/ SnapshotDelivered

SpecClassify == Init /\ [][NextClassify]_vars

\* Stored documents of three tasks with every choice of parent links, the
\* self-referential and the cyclic ones included: the listener applies
\* whatever array the document holds.
ParentLinkDocuments ==
    { << NewTask(1, "essay", NoDate, "do", "ai", 1, p[1]),
         NewTask(2, "outline", NoDate, "do", "ai", 2, p[2]),
         NewTask(3, "draft", NoDate, "do", "ai", 3, p[3]) >> :
      p \in [1..3 -> {NoParent} \cup 1..3] }

InitResolver ==
    /\ tasks = <<>>
    /\ settings \in SettingsDocuments /\ settings.apiKey = ""
    /\ globalError = "none"
    /\ toast = NoMessage
    /\ isApiKeyModalOpen = FALSE
    /\ subtaskModal = ClosedModal
    /\ breakdown = IdleBreakdown
    /\ batch = IdleBatch
    /\ single = IdleSingle
    /\ coaching = FALSE
    /\ writes = <<>>
    /\ remote \in ParentLinkDocuments
    /\ inbox = <<Json("array", remote)>>
    /\ nextId = Len(remote) + 1
    /\ deleted = {}
    /\ events = 0
    /\ listeners = Listening
    /\ studentContext = DEFAULT_STUDENT_CONTEXT
    /\ store = [studentContext |-> Json("object", StoredContext), settings |-> settings]
    /\ importer = IdleImporter

\* The status change applied to any task of such a collection.
NextResolver ==
    \/ \E id \in AllIds, s \in Statuses, now \in NowInstants :
           handleTaskStatusChange(id, s, now, 0)
    \/ SaveResolves
    \/ SaveRejects
    \/ SnapshotDelivered

SpecResolver == InitResolver /\ [][NextResolver]_vars

\* The data-fetching effect from its first run to its cleanup, with the
\* documents changing in the store meanwhile.
InitListener ==
    /\ tasks = <<>>
    /\ settings \in SettingsDocuments /\ settings.apiKey = ""
    /\ globalError = "none"
    /\ toast = NoMessage
    /\ isApiKeyModalOpen = FALSE
    /\ subtaskModal = ClosedModal
    /\ breakdown = IdleBreakdown
    /\ batch = IdleBatch
    /\ single = IdleSingle
    /\ coaching = FALSE
    /\ writes = <<>>
    /\ remote \in InitialDocuments
    /\ inbox = <<Json("array", remote)>>
    /\ nextId = Len(remote) + 1
    /\ deleted = {}
    /\ events = 0
    /\ listeners = AwaitingDb
    /\ studentContext = DEFAULT_STUDENT_CONTEXT
    /\ store = [studentContext |-> Json("object", StoredContext), settings |-> settings]
    /\ importer = IdleImporter

NextListener ==
    \/ \E c \in Documents : setupListener(c)
    \/ EffectCleanup
    \/ SnapshotDelivered
    \/ \E d \in SettingsDocuments : SettingsDelivered(d)
    \/ \E d \in OtherSessionDocuments : OtherSessionWrites(d)

SpecListener == InitListener /\ [][NextListener]_vars

\* The breakdown dialog with the operations that remove tasks, here and in
\* another session, while it is open.
InitBreakdown == Init /\ settings.apiKey = "key"

NextBreakdown ==
    \/ \E id \in AllIds : handleAIBreakdown(id)
    \/ \E r \in BreakdownReplies : BreakdownSettles(r)
    \/ \E sel \in SUBSET (1..2) : handleAddSubtasks(sel)
    \/ closeSubtaskModal
    \/ closeApiKeyModal
    \/ \E id \in AllIds, s \in Statuses, now \in NowInstants :
           handleTaskStatusChange(id, s, now, 0)
    \/ \E id \in AllIds : handlePermanentDelete(id)
    \/ handleEmptyTrash
    \/ \E d \in OtherSessionDocuments : OtherSessionWrites(d)
    \/ SaveResolves
    \/ SaveRejects
    \/ SnapshotDelivered

SpecBreakdown == InitBreakdown /\ [][NextBreakdown]_vars

\* Import of a backup file into a session that also adds tasks.
NextImport ==
    \/ handleImportData
    \/ ReaderFails
    \/ \E f \in ImportFiles, c \in BOOLEAN : ReaderLoads(f, c)
    \/ ImportSaveResolves
    \/ ImportSaveRejects
    \/ \E n \in TypedNames, d \in TypedDueDates : handleAddTask(n, d)
    \/ SaveResolves
    \/ SaveRejects
    \/ SnapshotDelivered

SpecImport == InitTasks /\ [][NextImport]_vars

\* The three listeners with documents that change, disappear or cannot be
\* read, in a session that adds tasks.
NextDelivery ==
    \/ \E snapshot \in OtherContents : StoreNotifies(snapshot)
    \/ ReadFails
    \/ SnapshotDelivered
    \/ \E snapshot \in ContextSnapshots : ContextDelivered(snapshot)
    \/ \E d \in SettingsDocuments : SettingsDelivered(d)
    \/ \E d \in OtherSessionDocuments : OtherSessionWrites(d)
    \/ \E n \in TypedNames, d \in TypedDueDates : handleAddTask(n, d)
    \/ SaveResolves
    \/ SaveRejects

SpecDelivery == InitTasks /\ [][NextDelivery]_vars

\* Settings with coaching switched off as well.
CoachingSettings ==
    SettingsDocuments \cup { [enableCoaching |-> FALSE, apiKey |-> "key"] }

\* Moves between quadrants with the coaching call that follows them.
NextCoaching ==
    \/ \E id \in AllIds, q \in QuadrantTypes, r \in MoveTargets :
           handleMoveTaskQuadrant(id, q, r)
    \/ \E reply \in CoachingReplies : CoachingSettles(reply)
    \/ \E d \in CoachingSettings : SettingsDelivered(d)
    \/ SaveResolves
    \/ SaveRejects
    \/ SnapshotDelivered

SpecCoaching == Init /\ [][NextCoaching]_vars

\* Local mutations and writes of another session, with every write
\* succeeding.  The mutations stop once MaxEvents of them have happened.
NextConverge ==
    \/ \E n \in TypedNames, d \in TypedDueDates : handleAddTask(n, d)
    \/ \E id \in AllIds : handlePermanentDelete(id)
    \/ \E id \in AllIds, s \in {"trashed"}, now \in NowInstants :
           handleTaskStatusChange(id, s, now, 0)
    \/ \E d \in OtherSessionDocuments : OtherSessionWrites(d)
    \/ \E d \in OtherSessionDocuments : OtherSessionWritesMeanwhile(d)
    \/ SaveResolves
    \/ SnapshotDelivered

\* setDoc settles and the registered onSnapshot callback runs: an
\* outstanding write is eventually acknowledged, a pending notification is
\* eventually delivered.
SpecConverge ==
    InitTasks /\ [][NextConverge]_vars
              /\ WF_vars(SaveResolves) /\ WF_vars(SnapshotDelivered)

\* The three handlers that call the AI service, with the settings document
\* delivering or withdrawing the API key.
NextCredential ==
    \/ classifyUnclassifiedTasks
    \/ \E id \in AllIds \cup batch.pending, r \in ClassificationReplies :
           BatchRequestSettles(id, r)
    \/ \E id \in AllIds \cup batch.pending, r \in ClassificationReplies :
           LateRequestSettles(id, r)
    \/ \E id \in AllIds : reclassifySingleTask(id)
    \/ \E r \in ClassificationReplies : ReclassifySettles(r)
    \/ \E id \in AllIds : handleAIBreakdown(id)
    \/ \E r \in BreakdownReplies : BreakdownSettles(r)
    \/ \E sel \in SUBSET (1..2) : handleAddSubtasks(sel)
    \/ closeSubtaskModal
    \/ closeApiKeyModal
    \/ \E d \in SettingsDocuments : SettingsDelivered(d)
    \/ SaveResolves
    \/ SaveRejects
    \/ SnapshotDelivered

SpecCredential == Init /\ [][NextCredential]_vars

\* ================================================================ properties
\* The descendants of a task, read off the parent links upwards: d is a
\* descendant of a when following parentId from d arrives at a.
RECURSIVE ClimbsTo(_, _, _, _)
ClimbsTo(ts, id, target, fuel) ==
    IF fuel = 0 \/ ~HasTask(ts, id) THEN FALSE
    ELSE LET p == FindTask(ts, id).parentId
         IN p # NoParent /\ (p = target \/ ClimbsTo(ts, p, target, fuel - 1))

SubtreeOf(ts, a) == { d \in TaskIds(ts) : ClimbsTo(ts, d, a, Len(ts)) }

Range(seq) == { seq[i] : i \in 1..Len(seq) }

\* C1: after changeStatus(t.id, s) on a task t of the collection, t and every
\* transitive descendant of t have status s, and every other task keeps the
\* status it had.
C1_StatusCascade ==
    [][\A id \in AllIds, s \in Statuses, now \in NowInstants, offset \in TimeZones :
          (HasTask(tasks, id) /\ handleTaskStatusChange(id, s, now, offset))
          => \A i \in 1..Len(tasks) :
                /\ tasks'[i].id = tasks[i].id
                /\ tasks'[i].status =
                      IF tasks[i].id \in {id} \cup SubtreeOf(tasks, id)
                      THEN s ELSE tasks[i].status]_vars

\* One status change on the root of the three-level chain, beside a fourth
\* task added earlier: the change has reached the grandchild and left the
\* fourth task alone; it has not been stored yet.
C1_Witness ==
    /\ Len(remote) = 4
    /\ \A i \in 1..4 : remote[i].status = "active"
    /\ Len(writes) = 1
    /\ tasks = writes[1].data
    /\ Len(tasks) = 4
    /\ tasks[2].parentId = 1 /\ tasks[3].parentId = 2 /\ tasks[4].parentId = NoParent
    /\ \A i \in 1..3 : tasks[i].status = "trashed"
    /\ tasks[4].status = "active"

\* C10: descendantsOf(id) on an acyclic collection is exactly the set of tasks
\* reachable from id through parent links, never id itself and nothing else.
C10_DescendantsExact ==
    \A id \in TaskIds(tasks) :
        /\ Range(getAllDescendantIds(id, tasks)) = SubtreeOf(tasks, id)
        /\ id \notin Range(getAllDescendantIds(id, tasks))

\* A task with two children, one of which has a child of its own.
C10_Witness ==
    /\ SubtreeOf(tasks, 1) = {2, 3, 4}
    /\ SubtreeOf(tasks, 2) = {3}
    /\ Range(getAllDescendantIds(1, tasks)) = {2, 3, 4}

\* C7: completing a task whose recurrence descriptor is present with a type
\* other than 'none' appends exactly one task: its id differs from every id
\* in the collection, its status is 'active', its quadrant 'unclassified',
\* its name and recurrence descriptor are those of the completed task; apart
\* from the status cascade no other task is added or altered.
C7_CompletionAppendsSuccessor ==
    [][\A id \in AllIds, now \in NowInstants, offset \in TimeZones :
          (/\ HasTask(tasks, id)
           /\ IsRecurring(FindTask(tasks, id))
           /\ handleTaskStatusChange(id, "completed", now, offset))
          => /\ Len(tasks') = Len(tasks) + 1
             /\ LET successor == tasks'[Len(tasks')]
                    t == FindTask(tasks, id)
                IN /\ successor.id \notin TaskIds(tasks)
                   /\ successor.status = "active"
                   /\ successor.quadrant = "unclassified"
                   /\ successor.name = t.name
                   /\ successor.recurring = t.recurring
             /\ \A i \in 1..Len(tasks) :
                   tasks'[i] = IF tasks[i].id \in {id} \cup SubtreeOf(tasks, id)
                               THEN [tasks[i] EXCEPT !.status = "completed"]
                               ELSE tasks[i]]_vars

\* The recurring root of the chain has just been completed: its next instance
\* is the fourth task.
C7_Witness ==
    /\ remote = ChainDocument
    /\ Len(writes) = 1
    /\ writes[1].msg = Message("completedNextCreated")
    /\ tasks = writes[1].data
    /\ Len(tasks) = 4
    /\ tasks[1].status = "completed"
    /\ tasks[4].id = 4 /\ tasks[4].status = "active"
    /\ tasks[4].quadrant = "unclassified"
    /\ tasks[4].name = tasks[1].name /\ tasks[4].recurring = tasks[1].recurring

\* C8: the next instance of a task with a due date is due interval days
\* (daily) or 7 * interval days (weekly) after the completed task's due
\* date, whatever the host's time-zone offset: weekly with interval 2 from
\* 2024-01-01 gives 2024-01-15.
C8_DueDateAdvancesByInterval ==
    [][\A id \in AllIds, now \in NowInstants, offset \in TimeZones :
          (/\ HasTask(tasks, id)
           /\ FindTask(tasks, id).recurring.type \in {"daily", "weekly"}
           /\ FindTask(tasks, id).dueDate # NoDate
           /\ handleTaskStatusChange(id, "completed", now, offset))
          => LET t == FindTask(tasks, id)
                 days == IF t.recurring.type = "daily" THEN t.recurring.interval
                         ELSE 7 * t.recurring.interval
             IN tasks'[Len(tasks')].dueDate = t.dueDate + days]_vars

\* C9: a status change adds a task only when it is a completion of a
\* recurring task, and then it adds one task, the next instance of the task
\* named in the call: changes to 'trashed' or 'active' add nothing, tasks
\* completed through the cascade get no next instance, and every further
\* completion of the same task adds one more.
C9_SuccessorOnlyForNamedCompletion ==
    [][\A id \in AllIds, s \in Statuses, now \in NowInstants, offset \in TimeZones :
          (HasTask(tasks, id) /\ handleTaskStatusChange(id, s, now, offset))
          => IF s = "completed" /\ IsRecurring(FindTask(tasks, id))
             THEN /\ Len(tasks') = Len(tasks) + 1
                  /\ tasks'[Len(tasks')].name = FindTask(tasks, id).name
                  /\ tasks'[Len(tasks')].parentId = FindTask(tasks, id).parentId
             ELSE Len(tasks') = Len(tasks)]_vars

\* The root of the chain has been completed, reactivated and completed
\* again: it has two next instances; its recurring child, completed only
\* through the cascade, has none.
C9_Witness ==
    /\ Len(tasks) = 5
    /\ tasks[1].status = "completed" /\ tasks[2].status = "completed"
    /\ IsRecurring(tasks[2])
    /\ \A i \in {4, 5} : /\ tasks[i].name = tasks[1].name
                          /\ tasks[i].parentId = NoParent
                          /\ tasks[i].reasoning = "newRecurringInstance"
    /\ \A i \in 1..5 : tasks[i].name = tasks[2].name => i = 2

\* The four quadrants a classification may name.
ValidQuadrants == {"do", "schedule", "delegate", "delete"}

\* The step in which a batch or a single re-classification writes its result
\* back into the collection.
IsBatchMerge ==
    /\ writes' # writes
    /\ \E id \in AllIds \cup batch.pending, r \in ClassificationReplies :
          BatchRequestSettles(id, r)

IsSingleMerge ==
    /\ writes' # writes
    /\ \E r \in ClassificationReplies : ReclassifySettles(r)

\* C2: a task deleted from the collection while a classification request
\* for it is outstanding is absent after that request's merge, both from the
\* local collection and from what is written to the store.
C2_DeletedTaskStaysDeleted ==
    [][\A d \in deleted \ TaskIds(tasks) :
          \/ IsBatchMerge /\ d \in TaskIds(TasksToClassify(batch.snapshot))
          \/ IsSingleMerge /\ d = single.taskId
          => /\ d \notin TaskIds(tasks')
             /\ d \notin TaskIds(writes'[Len(writes')].data)]_vars

\* C3: whatever was committed to the collection between the dispatch of a
\* batch and its merge is still there after the merge: tasks outside the
\* batch are as they were just before it, tasks of the batch differ at most
\* in their classification fields.
C3_MergeKeepsConcurrentEdits ==
    [][IsBatchMerge
          => LET inBatch == TaskIds(TasksToClassify(batch.snapshot)) IN
             \A i \in 1..Len(tasks) :
                /\ HasTask(tasks', tasks[i].id)
                /\ LET before == tasks[i]
                       after == FindTask(tasks', tasks[i].id)
                   IN IF before.id \in inBatch
                      THEN /\ after.name = before.name
                           /\ after.status = before.status
                           /\ after.recurring = before.recurring
                           /\ after.parentId = before.parentId
                      ELSE after = before]_vars

\* C4: when the n requests of a batch have all come back, k with a result and
\* n - k with an error that is not a credential error, the merge gives exactly
\* the k tasks their returned quadrant and reasoning, leaves each of the
\* other n - k tasks 'unclassified' with the failure diagnostic as reasoning,
\* and reports k as the number classified.
C4_PartialFailureIsolated ==
    [][\A id \in batch.pending, r \in ClassificationReplies :
          (BatchRequestSettles(id, r) /\ writes' # writes)
          => LET out == (id :> performAIClassification(r)) @@ batch.outcomes
                 k == Cardinality({x \in DOMAIN out : out[x].ok})
                 written == writes'[Len(writes')]
             IN /\ DOMAIN out = TaskIds(TasksToClassify(batch.snapshot))
                /\ \A x \in DOMAIN out : HasTask(tasks', x)
                /\ \A x \in DOMAIN out :
                      LET t == FindTask(tasks', x) IN
                      IF out[x].ok
                      THEN /\ t.quadrant = out[x].result.quadrant
                           /\ t.reasoning = out[x].result.reasoning
                      ELSE /\ t.quadrant = "unclassified"
                           /\ t.reasoning = "classificationFailed"
                /\ written.data = tasks'
                /\ written.msg.count = k]_vars

\* A batch of two has merged: one task classified, the other failed, one
\* reported.
C4_Witness ==
    /\ batch = IdleBatch
    /\ Len(writes) = 1
    /\ writes[1].msg = [text |-> "classifiedByAI", count |-> 1]
    /\ tasks = writes[1].data
    /\ \E i, j \in 1..Len(tasks) :
          /\ tasks[i].quadrant = "do" /\ tasks[i].reasoning = "ai"
          /\ tasks[j].quadrant = "unclassified"
          /\ tasks[j].reasoning = "classificationFailed"

\* C5: when a request of a batch fails with a credential error, the batch
\* changes no task and issues no write, whatever the other requests did and
\* whenever they came back, and the credential prompt is opened; the
\* failing request sets no error message.
C5_CredentialErrorAllOrNothing ==
    [][\A id \in batch.pending, r \in ClassificationReplies :
          /\ (r.kind = "error" /\ r.apiKeyMessage /\ BatchRequestSettles(id, r))
             => /\ tasks' = tasks
                /\ writes' = writes
                /\ isApiKeyModalOpen'
                /\ globalError' = globalError
                /\ batch'.state # "running"
          /\ (batch.state = "rejected" /\ LateRequestSettles(id, r))
             => /\ tasks' = tasks
                /\ writes' = writes
                /\ batch'.state # "running"]_vars

\* A batch of two is over: one request failed on its own, the other with a
\* credential error; the prompt is open, nothing was merged or written.
C5_Witness ==
    /\ isApiKeyModalOpen
    /\ globalError = "classificationFailed"
    /\ batch = IdleBatch
    /\ settings.apiKey # ""
    /\ tasks = UnclassifiedDocument
    /\ remote = UnclassifiedDocument
    /\ writes = <<>> /\ inbox = <<>>
    /\ events = 1

\* C6: a classification response whose quadrant is not one of the four valid
\* quadrants (the string 'unclassified' in particular) is a failure: a batch
\* does not count it, and a re-classification does not set the task's
\* quadrant from it.
C6_InvalidQuadrantIsFailure ==
    [][\A r \in ClassificationReplies :
          (r.kind = "json" /\ r.body.quadrant \notin ValidQuadrants)
          => /\ \A id \in batch.pending :
                   BatchRequestSettles(id, r)
                   => /\ batch'.state = "running" => batch'.count = batch.count
                      /\ writes' # writes
                            => /\ writes'[Len(writes')].msg.count = batch.count
                               /\ FindTask(tasks', id).reasoning = "classificationFailed"
             /\ ReclassifySettles(r)
                   => /\ globalError' = "reclassificationFailed"
                      /\ FindTask(tasks', single.taskId).quadrant
                            = FindTask(single.snapshot, single.taskId).quadrant]_vars

\* C11: on every finite collection, one with a task that is its own parent or
\* with a cycle of parent links included, the descendant resolver returns for
\* every task of the collection (and so do the operations that call it).
C11_ResolverReturns ==
    \A id \in TaskIds(tasks) : CallReturns(id, tasks, {})


\* C12: every step of a mutation operation that changes the local collection
\* requests, in the same step, one persistence write carrying exactly the new
\* collection; when a write fails the local collection stays as it is, the
\* global error is set, and the failed write is not requested again.
C12_OptimisticCommitNoRollback ==
    [][ /\ (tasks' # tasks /\ Len(inbox') >= Len(inbox))
              => /\ Len(writes') = Len(writes) + 1
                 /\ SubSeq(writes', 1, Len(writes)) = writes
        /\ Len(writes') > Len(writes) => writes'[Len(writes')].data = tasks'
        /\ (Len(writes') < Len(writes) /\ inbox' = inbox)
              => /\ tasks' = tasks
                 /\ globalError' = "saveFailed"
                 /\ writes' = Tail(writes)
                 /\ remote' = remote ]_vars

\* A write has failed: the local collection is kept although the stored
\* document differs, the error is shown, nothing is left to be written.
C12_Witness ==
    /\ globalError = "saveFailed"
    /\ writes = <<>> /\ inbox = <<>>
    /\ tasks # <<>> /\ tasks # remote

\* C13: once the cleanup of the data-fetching effect has run, no delivery of
\* the tasks or the settings document is applied to local state, whether the
\* cleanup ran after or before the listeners' set-up completed.
C13_NoDeliveryAfterCleanup ==
    [][listeners.cleanup => (tasks' = tasks /\ settings' = settings)]_vars

\* C14: in every reachable collection, every task with a parentId refers to
\* a task that is present in the collection.
C14_ParentPresent ==
    \A i \in 1..Len(tasks) :
        tasks[i].parentId # NoParent => HasTask(tasks, tasks[i].parentId)

\* C15: the merge of a single re-classification, successful or failed with
\* an error other than a credential error, changes no task but the one it
\* was asked for: every other task of the collection is afterwards exactly
\* as it was just before the merge, and no other task appears.
C15_ReclassifyTouchesOneTask ==
    [][IsSingleMerge
          => /\ \A i \in 1..Len(tasks) :
                    tasks[i].id # single.taskId
                       => /\ HasTask(tasks', tasks[i].id)
                          /\ FindTask(tasks', tasks[i].id) = tasks[i]
             /\ \A j \in 1..Len(tasks') :
                    tasks'[j].id # single.taskId => HasTask(tasks, tasks'[j].id)]_vars

\* C16: the set of task ids of the local collection loses an id only in a
\* permanent delete, in emptying the trash, or when a delivered document
\* replaces the collection; no other step (status changes, recovery, edits,
\* moves, additions, classification merges) removes an id.
C16_IdsLeaveOnlyByDeletion ==
    [][ (/\ ~(\E id \in AllIds : handlePermanentDelete(id))
         /\ ~handleEmptyTrash
         /\ ~SnapshotDelivered)
          => TaskIds(tasks) \subseteq TaskIds(tasks') ]_vars

\* C17 (as stated): a status change for an id that is not in the collection
\* leaves the collection unchanged, raises no error, and requests a
\* persistence write of the unchanged collection.
C17_MissingIdStillPersisted ==
    [][\A id \in AllIds, s \in Statuses, now \in NowInstants, offset \in TimeZones :
          (~HasTask(tasks, id) /\ handleTaskStatusChange(id, s, now, offset))
             => /\ tasks' = tasks
                /\ globalError' = globalError
                /\ writes' = Append(writes, [data |-> tasks, msg |-> NoMessage])]_vars

\* C17 (amended): a status change for an id that is not in the collection
\* leaves the collection unchanged, raises no error, and requests no
\* persistence write.
C17_MissingIdIsNoOp ==
    [][\A id \in AllIds, s \in Statuses, now \in NowInstants, offset \in TimeZones :
          (~HasTask(tasks, id) /\ handleTaskStatusChange(id, s, now, offset))
             => /\ tasks' = tasks
                /\ globalError' = globalError
                /\ toast' = toast
                /\ writes' = writes]_vars

\* A status change was asked for on the empty collection: the event has
\* happened, and nothing was written, shown or stored.
C17_Witness ==
    /\ events = 1
    /\ tasks = <<>> /\ remote = <<>> /\ nextId = 1
    /\ writes = <<>> /\ inbox = <<>>
    /\ toast = NoMessage /\ globalError = "none"

\* C18: a confirmed permanent delete of a task removes that task and every
\* transitive descendant of it from the collection, keeps every other task
\* as it was and in its place, and requests the write of exactly that
\* reduced collection.
C18_PermanentDeleteRemovesSubtree ==
    [][\A id \in AllIds :
          handlePermanentDelete(id)
             => LET gone == {id} \cup SubtreeOf(tasks, id) IN
                /\ TaskIds(tasks') \cap gone = {}
                /\ tasks' = SelectSeq(tasks, LAMBDA t : t.id \notin gone)
                /\ writes' = Append(writes, [data |-> tasks',
                                             msg |-> Message("permanentlyDeleted")])]_vars

\* A task with two generations of descendants has been deleted for good and
\* the write has gone through: the stored document holds the one other task.
C18_Witness ==
    /\ deleted = {1, 2, 3}
    /\ TaskIds(tasks) = {4}
    /\ remote = tasks
    /\ writes = <<>>
    /\ toast = Message("permanentlyDeleted")

\* C19: recovering a task from the trash sets the status of the task and of
\* every transitive descendant to 'active', whatever status each of them
\* had, and leaves every other task as it was.
C19_RecoverCascadesUnconditionally ==
    [][\A id \in AllIds :
          handleRecoverTask(id)
             => LET closure == {id} \cup SubtreeOf(tasks, id) IN
                /\ Len(tasks') = Len(tasks)
                /\ \A i \in 1..Len(tasks) :
                      tasks'[i] = IF tasks[i].id \in closure
                                  THEN [tasks[i] EXCEPT !.status = "active"]
                                  ELSE tasks[i]]_vars

\* A trashed task with a trashed sub-task and a completed sub-task below
\* that has been recovered: the stored document still shows the statuses
\* from before, the collection has all three active.
C19_Witness ==
    /\ Len(remote) = 3 /\ Len(tasks) = 3
    /\ remote[1].status = "trashed"
    /\ remote[2].status = "trashed" /\ remote[3].status = "completed"
    /\ remote[2].parentId = 1 /\ remote[3].parentId = 2
    /\ \A i \in 1..3 : tasks[i].status = "active"
    /\ Len(writes) = 1 /\ writes[1].msg = Message("recovered")

C21_NoKeyNoRequest ==
    [][settings.apiKey = ""
          => /\ (classifyUnclassifiedTasks /\ TasksToClassify(tasks) # <<>>)
                   => /\ batch' = batch /\ tasks' = tasks /\ writes' = writes
                      /\ isApiKeyModalOpen'
             /\ \A id \in AllIds :
                   reclassifySingleTask(id)
                      => /\ single' = single /\ tasks' = tasks /\ writes' = writes
                         /\ isApiKeyModalOpen'
             /\ \A id \in AllIds :
                   handleAIBreakdown(id)
                      => /\ breakdown' = breakdown /\ subtaskModal' = subtaskModal
                         /\ tasks' = tasks /\ writes' = writes
                         /\ isApiKeyModalOpen']_vars

\* The first click of a session without a key, with two tasks waiting to be
\* classified: the prompt is open, no request is out, nothing was written.
C21_Witness ==
    /\ settings.apiKey = "" /\ isApiKeyModalOpen /\ events = 1
    /\ TasksToClassify(tasks) # <<>>
    /\ batch = IdleBatch /\ single = IdleSingle /\ breakdown = IdleBreakdown
    /\ writes = <<>> /\ tasks = remote

\* C22: when the parsed file lacks one of the keys tasks, studentContext and
\* settings, or its tasks value is not an array, the import requests no
\* write, overwrites no document, changes none of the three local states,
\* and reports an import error.
C22_InvalidImportRejected ==
    [][\A f \in ImportFiles, c \in BOOLEAN :
          (/\ ReaderLoads(f, c)
           /\ f.parsed
           /\ \/ "missing" \in {f.tasks.kind, f.studentContext.kind, f.settings.kind}
              \/ f.tasks.kind # "array")
             => /\ importer' = IdleImporter
                /\ tasks' = tasks /\ studentContext' = studentContext
                /\ settings' = settings
                /\ writes' = writes /\ remote' = remote /\ store' = store
                /\ globalError' = "importFailed"]_vars

\* A file was read and refused: the error is shown, the session holds the
\* stored tasks, and the context and settings it started with.
C22_Witness ==
    /\ globalError = "importFailed" /\ importer = IdleImporter /\ events = 1
    /\ tasks = remote /\ tasks # <<>> /\ writes = <<>>
    /\ store = [studentContext |-> Json("object", StoredContext), settings |-> settings]
    /\ toast = NoMessage

\* C29: a confirmed import is all-or-nothing: when one of its three writes
\* fails, no document has been overwritten and no local state has been set
\* by this import, that is, no write of the import has gone through before
\* the failing one.
C29_ImportAllOrNothing ==
    [][ImportSaveRejects
          => /\ importer.state = "tasks"
             /\ tasks' = tasks /\ remote' = remote
             /\ studentContext' = studentContext /\ settings' = settings
             /\ store' = store]_vars

C30_ReadErrorKeepsCollection ==
    [][(SnapshotDelivered /\ Head(inbox).kind = "error") => tasks' = tasks]_vars

\* C24: an edit of a task's details sets the name, the due date and the
\* recurrence of the task with that id to the submitted values and changes
\* no other field of it (id, quadrant, status, reasoning, createdAt,
\* parentId) and no other task.
C24_UpdateDetailsFrame ==
    [][\A id \in AllIds, e \in EditInputs :
          handleUpdateTaskDetails(id, e[1], e[2], e[3])
             => /\ Len(tasks') = Len(tasks)
                /\ \A i \in 1..Len(tasks) :
                      IF tasks[i].id = id
                      THEN /\ DOMAIN tasks'[i] = DOMAIN tasks[i]
                           /\ tasks'[i].name = e[1]
                           /\ tasks'[i].dueDate = e[2]
                           /\ tasks'[i].recurring = e[3]
                           /\ \A k \in DOMAIN tasks[i] \ {"name", "dueDate", "recurring"} :
                                 tasks'[i][k] = tasks[i][k]
                      ELSE tasks'[i] = tasks[i]]_vars

\* The first task of the stored chain has been renamed and given a monthly
\* recurrence: its write is outstanding, the stored document has the old values.
C24_Witness ==
    /\ Len(writes) = 1 /\ writes[1].msg = Message("updated")
    /\ Len(tasks) = 3 /\ Len(remote) = 3
    /\ tasks[1].name = "report" /\ remote[1].name = "essay"
    /\ tasks[1].recurring # remote[1].recurring \/ tasks[1].dueDate # remote[1].dueDate
    /\ tasks[1].reasoning = remote[1].reasoning
    /\ tasks[2] = remote[2] /\ tasks[3] = remote[3]

\* C25: submitting the add form with an empty name or a name of blanks only
\* leaves the collection as it is and requests no write; with any other
\* name it appends exactly one task, top-level, 'unclassified', 'active' and
\* without recurrence, after the existing tasks, which stay as they are.
C25_AddTaskRejectsBlankName ==
    [][\A n \in TypedNames, d \in TypedDueDates :
          handleAddTask(n, d)
             => IF n \in {"", "  "}
                THEN tasks' = tasks /\ writes' = writes
                ELSE /\ Len(tasks') = Len(tasks) + 1
                     /\ SubSeq(tasks', 1, Len(tasks)) = tasks
                     /\ tasks'[Len(tasks')].parentId = NoParent
                     /\ tasks'[Len(tasks')].quadrant = "unclassified"
                     /\ tasks'[Len(tasks')].status = "active"
                     /\ tasks'[Len(tasks')].recurring = NoRecurring
                     /\ writes' = Append(writes, [data |-> tasks', msg |-> NoMessage])]_vars

\* A blank name was refused and then a name was accepted: the refusal left
\* its toast, the collection is the stored one plus the new task.
C25_Witness ==
    /\ events = 2 /\ toast = Message("nameEmpty")
    /\ Len(tasks) = Len(remote) + 1
    /\ SubSeq(tasks, 1, Len(remote)) = remote
    /\ tasks[Len(tasks)].name = "essay"
    /\ Len(writes) = 1

\* C26: when the coaching call that follows a move fails (network error,
\* text that is not JSON, rejected key), the global error, the toast, the
\* collection and the outstanding writes are as they were, so the move
\* stands; and a move starts the call only when coaching is enabled and an
\* API key is set.
C26_CoachingFailureSwallowed ==
    [][ /\ \A reply \in CoachingReplies :
              (CoachingSettles(reply) /\ reply.kind # "json")
                 => /\ globalError' = globalError /\ toast' = toast
                    /\ tasks' = tasks /\ writes' = writes /\ remote' = remote
        /\ \A id \in AllIds, q \in QuadrantTypes, r \in MoveTargets :
              (handleMoveTaskQuadrant(id, q, r) /\ ~coaching)
                 => (coaching' <=> (settings.enableCoaching /\ settings.apiKey # "")) ]_vars

\* A task was moved with coaching on and a key set, the move was saved and
\* delivered, and the coaching call is over without a toast or an error.
C26_Witness ==
    /\ settings.enableCoaching /\ settings.apiKey = "key" /\ events = 1
    /\ ~coaching /\ toast = NoMessage /\ globalError = "none"
    /\ \E i \in 1..Len(tasks) : tasks[i].reasoning = "manuallyMoved"
    /\ tasks = remote /\ writes = <<>> /\ inbox = <<>>

BatchSucceeded(id, result) ==
    \/ /\ id \in DOMAIN batch.outcomes
       /\ batch.outcomes[id].ok
       /\ batch.outcomes[id].result = result
    \/ \E r \in ClassificationReplies :
          /\ BatchRequestSettles(id, r)
          /\ performAIClassification(r).ok
          /\ performAIClassification(r).result = result

SingleSucceeded(id, result) ==
    /\ id = single.taskId
    /\ \E r \in ClassificationReplies :
          /\ ReclassifySettles(r)
          /\ performAIClassification(r).ok
          /\ performAIClassification(r).result = result

\* C28: a successful classification merge leaves the classified task's id,
\* name, status, parentId, createdAt and recurring as they were in the
\* collection immediately before the merge, and changes its dueDate only
\* when the response carries a non-empty suggestedDate.
C28_MergeFrame ==
    [][\A id \in AllIds, result \in ClassificationBodies :
          ( /\ HasTask(tasks, id)
            /\ \/ IsBatchMerge /\ BatchSucceeded(id, result)
               \/ IsSingleMerge /\ SingleSucceeded(id, result) )
          => /\ HasTask(tasks', id)
             /\ LET before == FindTask(tasks, id)
                    after == FindTask(tasks', id)
                IN /\ after.name = before.name
                   /\ after.status = before.status
                   /\ after.parentId = before.parentId
                   /\ after.createdAt = before.createdAt
                   /\ after.recurring = before.recurring
                   /\ after.dueDate # before.dueDate
                        => /\ "suggestedDate" \in DOMAIN result
                           /\ result.suggestedDate # NoDate ]_vars
====
